---------------------------- MODULE Spec2Model ----------------------------
(***************************************************************************)
(* Request-handling pipeline of the customer-review classification         *)
(* service: the HTTP adapter (services/baseline_api/rest_server.py) and    *)
(* the RPC adapter (services/optimized_api/grpc_server.py), the shared     *)
(* psycopg2 connection pool, the schema initializer and the mock model.    *)
(*                                                                         *)
(* Text is a sequence of one-character strings.  Confidence is an integer  *)
(* in units of 1/ConfScale (round(confidence, 4)).                         *)
(***************************************************************************)
EXTENDS Integers, Sequences, FiniteSets, TLC

(***************************************************************************)
(* Bounds of the model and program configuration.                          *)
(***************************************************************************)
MaxRequests == 2          \* requests accepted by the concurrent server
MaxSeqRequests == 2       \* requests accepted by the one-at-a-time server
MaxPoolCfg == 2           \* DB_MAX_POOL is configured in 1..MaxPoolCfg
MaxTime == 2              \* the clock of the timed specification stops here
MaxLifeRequests == 2      \* requests accepted over the process's life
MaxPrior == 7             \* rows a prior run of the service left in the store

MAX_TEXT_LENGTH == 4
DB_MIN_POOL == 1
DB_CONN_TIMEOUT == 1
MAX_WORKER_THREADS == 2
HISTORY_LIMIT == 5
RESPONSE_HISTORY == 2
ConfScale == 10000

Workers == 1..MAX_WORKER_THREADS
MAIN == 0                 \* the startup thread (init_db_pool, init_schema)
ConnIds == 1..(MaxPoolCfg + 2)

(***************************************************************************)
(* Python str operations used by the handlers and by clean_text.           *)
(***************************************************************************)
IsSpace(c) == c = " "
IsDigit(c) == c \in {"1", "8"}
IsLetter(c) == c \in {"a", "b", "d", "e", "k", "l", "o", "u", "v",
                      "B", "E", "L", "O", "V"}
\* \w of the re module: letters, digits and the underscore
IsWord(c) == IsLetter(c) \/ IsDigit(c) \/ c = "_"

LowerChar(c) ==
    CASE c = "B" -> "b"
      [] c = "E" -> "e"
      [] c = "L" -> "l"
      [] c = "O" -> "o"
      [] c = "V" -> "v"
      [] OTHER -> c

\* str.lower()
Lower(s) == [i \in 1..Len(s) |-> LowerChar(s[i])]

RECURSIVE LStrip(_)
LStrip(s) == IF s # <<>> /\ IsSpace(Head(s)) THEN LStrip(Tail(s)) ELSE s

RECURSIVE RStrip(_)
RStrip(s) ==
    IF s # <<>> /\ IsSpace(s[Len(s)]) THEN RStrip(SubSeq(s, 1, Len(s) - 1)) ELSE s

\* str.strip()
Strip(s) == RStrip(LStrip(s))

\* re.sub(r'\d+', '', text)
RemoveDigits(s) == SelectSeq(s, LAMBDA c : ~IsDigit(c))

\* re.sub(r'[^\w\s]', '', text)
RemovePunct(s) == SelectSeq(s, LAMBDA c : IsWord(c) \/ IsSpace(c))

\* word in text
Contains(text, word) ==
    \E i \in 1..(Len(text) - Len(word) + 1) :
        SubSeq(text, i, i + Len(word) - 1) = word

\* preprocessor.clean_text / optimizer.clean_text
clean_text(text) == Strip(RemovePunct(RemoveDigits(Lower(text))))

(***************************************************************************)
(* model.get_classification: keyword logic; the confidence is drawn from   *)
(* random.uniform(lo, hi) and rounded to 4 places.                         *)
(***************************************************************************)
PositiveWords ==
    { <<"g","r","e","a","t">>, <<"f","a","n","t","a","s","t","i","c">>,
      <<"l","o","v","e">>, <<"h","a","p","p","y">>,
      <<"e","x","c","e","l","l","e","n","t">> }
NegativeWords ==
    { <<"t","e","r","r","i","b","l","e">>, <<"b","a","d">>,
      <<"u","n","h","a","p","p","y">>, <<"p","r","o","b","l","e","m">>,
      <<"h","a","t","e">> }

HIGH_VALUE == <<"H","i","g","h","-","V","a","l","u","e">>
MID_VALUE == <<"M","i","d","-","V","a","l","u","e">>
AT_RISK == <<"A","t","-","R","i","s","k">>

get_segment(text) ==
    LET text_lower == Lower(text)
    IN  IF \E w \in PositiveWords : Contains(text_lower, w) THEN HIGH_VALUE
        ELSE IF \E w \in NegativeWords : Contains(text_lower, w) THEN AT_RISK
        ELSE MID_VALUE

\* the ranges written in percent
ConfidenceRangeMutant(segment) == {85 * ConfScale, 99 * ConfScale}

\* the values random.uniform(lo, hi) is sampled at: both ends of the range
ConfidenceRange(segment) ==
    IF segment = HIGH_VALUE THEN {8500, 9900}
    ELSE IF segment = AT_RISK THEN {7500, 9500}
    ELSE {5000, 8000}

\* the set of results get_classification(text) can return
get_classification(text) ==
    { <<get_segment(text), c>> : c \in ConfidenceRange(get_segment(text)) }

(***************************************************************************)
(* Request payloads.  A JSON value is a string or a non-string (number,    *)
(* null, ...) of which only the Python truth value matters to the code.    *)
(***************************************************************************)
StrVal(s) == [kind |-> "str", s |-> s, truthy |-> s # <<>>]
NonStr(k, t) == [kind |-> k, s |-> <<>>, truthy |-> t]
ABSENT == [kind |-> "absent", s |-> <<>>, truthy |-> FALSE]

IsStr(v) == v.kind = "str"            \* isinstance(v, str)

\* the parsed body: a JSON object with its two keys (a missing key is
\* ABSENT), or another JSON value, or a body that does not parse
Object(c, t) == [kind |-> "object", customer_id |-> c, review_text |-> t]
NonObject(k) == [kind |-> k, customer_id |-> ABSENT, review_text |-> ABSENT]

Outcome(ok, status, error) == [ok |-> ok, status |-> status, error |-> error]
PASS == Outcome(TRUE, "", "")

(***************************************************************************)
(* rest_server.classify, lines 127-168: validation of the JSON payload.    *)
(* An exception that leaves the view function is answered by Flask: a      *)
(* BadRequest raised by request.json as 400, any other by the 500 handler. *)
(***************************************************************************)
\* line 142: not isinstance(customer_id, str) or not isinstance(customer_id, str)
HttpTypeCheck(customer_id, review_text) ==
    IsStr(customer_id) /\ IsStr(customer_id)

\* the emptiness test without the strip
HttpBlankMutant(v) == v.s = <<>>

\* lines 151, 156: not v.strip()
HttpBlank(v) == Strip(v.s) = <<>>

\* the size test off by one
HttpSizeCheckMutant(review_text) == Len(review_text.s) < MAX_TEXT_LENGTH

\* line 161: len(review_text) > MAX_TEXT_LENGTH
HttpSizeCheck(review_text) == Len(review_text.s) <= MAX_TEXT_LENGTH

HttpValidate(data) ==
    IF data.kind = "unparseable" THEN Outcome(FALSE, "400", "Bad Request")
    ELSE IF data.kind = "null"
        THEN Outcome(FALSE, "400", "No JSON payload received")
    ELSE IF data.kind = "number"
        \* "customer_id" not in data raises TypeError
        THEN Outcome(FALSE, "500", "Internal server error")
    ELSE IF data.kind = "list"
             \/ data.customer_id = ABSENT \/ data.review_text = ABSENT
        THEN Outcome(FALSE, "400", "Missing 'customer_id' or 'review_text'")
    ELSE IF ~HttpTypeCheck(data.customer_id, data.review_text)
        THEN Outcome(FALSE, "400", "customer_id and review_text must be strings")
    ELSE IF ~data.customer_id.truthy \/ HttpBlank(data.customer_id)
        THEN Outcome(FALSE, "400", "customer_id cannot be empty")
    ELSE IF ~data.review_text.truthy
        THEN Outcome(FALSE, "400", "review_text cannot be empty")
    ELSE IF ~IsStr(data.review_text)
        \* review_text.strip() raises AttributeError
        THEN Outcome(FALSE, "500", "Internal server error")
    ELSE IF HttpBlank(data.review_text)
        THEN Outcome(FALSE, "400", "review_text cannot be empty")
    ELSE IF ~HttpSizeCheck(data.review_text)
        THEN Outcome(FALSE, "400", "review_text exceeds maximum length")
    ELSE PASS

(***************************************************************************)
(* grpc_server.ClassifierServicer.Classify, lines 120-149: validation of   *)
(* the two message fields; context.abort raises, which ends the handler.   *)
(***************************************************************************)
\* line 146: len(review_text) > MAX_TEXT_LENGTH
RpcSizeCheck(review_text) == Len(review_text.s) <= MAX_TEXT_LENGTH

RpcValidate(data) ==
    IF ~data.customer_id.truthy \/ ~IsStr(data.customer_id)
        THEN Outcome(FALSE, "INVALID_ARGUMENT", "customer_id must be a non-empty string")
    ELSE IF Strip(data.customer_id.s) = <<>>
        THEN Outcome(FALSE, "INVALID_ARGUMENT", "customer_id cannot be empty or whitespace")
    ELSE IF ~data.review_text.truthy \/ ~IsStr(data.review_text)
        THEN Outcome(FALSE, "INVALID_ARGUMENT", "review_text must be a non-empty string")
    ELSE IF Strip(data.review_text.s) = <<>>
        THEN Outcome(FALSE, "INVALID_ARGUMENT", "review_text cannot be empty or whitespace")
    ELSE IF ~RpcSizeCheck(data.review_text)
        THEN Outcome(FALSE, "INVALID_ARGUMENT", "review_text exceeds maximum length")
    ELSE PASS

Validate(a, data) == IF a = "http" THEN HttpValidate(data) ELSE RpcValidate(data)

(***************************************************************************)
(* The inputs the requests are drawn from.                                 *)
(***************************************************************************)
CustomerIds == { <<>>, <<" ">>, <<"u">> }
ReviewTexts ==
    { <<>>, <<" ", " ">>,
      <<"L", "O", "V", "E">>,             \* length = MAX_TEXT_LENGTH
      <<"b", "1", "a", "d">>,             \* cleaned to "bad"
      <<"o", "k", "!">>,
      <<"l", "o", "v", "e", "!">>,        \* length = MAX_TEXT_LENGTH + 1
      <<" ", "o", "k", " ", " ">> }       \* too long only with its blanks
NonStrings == { NonStr("num", TRUE), NonStr("null", FALSE) }

HttpPayloads ==
    { NonObject(k) : k \in {"unparseable", "null", "number", "list"} }
    \cup { Object(c, t) :
             c \in {ABSENT} \cup NonStrings \cup { StrVal(s) : s \in CustomerIds },
             t \in {ABSENT} \cup NonStrings \cup { StrVal(s) : s \in ReviewTexts } }

\* a protobuf message: both fields are strings, an unset field is ""
RpcPayloads ==
    { Object(StrVal(c), StrVal(t)) : c \in CustomerIds, t \in ReviewTexts }

Payloads(a) == IF a = "http" THEN HttpPayloads ELSE RpcPayloads

\* the payloads of the requests that run concurrently
CorePayloads(a) ==
    { Object(StrVal(<<"u">>), StrVal(<<"L", "O", "V", "E">>)),
      Object(StrVal(<<>>), StrVal(<<"o", "k">>)) }

(***************************************************************************)
(* State.                                                                  *)
(***************************************************************************)
VARIABLES
    adapter,        \* "http" (rest_server.py) or "rpc" (grpc_server.py)
    DB_MAX_POOL,    \* os.environ DB_MAX_POOL, read at import
    boot,           \* position of the startup code
    pool_ready,     \* db_pool is not None
    pool_idle,      \* SimpleConnectionPool._pool: the idle connections
    pool_used,      \* SimpleConnectionPool._used: holder -> connection, 0 = none
    txn,            \* per connection: its open transaction
    table_exists,   \* customer_segments exists in the store
    index_exists,   \* idx_customer_id exists in the store
    rows,           \* committed rows of customer_segments, in commit order
    clock,          \* the store's CURRENT_TIMESTAMP
    served,         \* requests accepted so far
    now,            \* wall-clock time
    wk              \* per worker thread: the request it is handling

vars == <<adapter, DB_MAX_POOL, boot, pool_ready, pool_idle, pool_used, txn,
          table_exists, index_exists, rows, clock, served, now, wk>>

Holders == Workers \cup {MAIN}
NoConn == 0

\* exception classes the store operations raise, by the except clause
\* that catches them
DbErrors == {"OperationalError", "ProgrammingError", "Exception"}

IdleTxn == [state |-> "idle", pending |-> <<>>, ended_by |-> "none"]

NoResponse == [status |-> "", error |-> "", request_id |-> ABSENT,
               customer_id |-> ABSENT,
               segment |-> <<>>, confidence |-> 0, history_count |-> 0,
               recent_classifications |-> <<>>]

\* e_msg: the text carried by any exception a collaborator raises while
\* this request is handled; logged: the exception text written to the log;
\* clean_arg: the text the handler passed to clean_text;
\* cancelled: the caller of the request has gone (disconnect, deadline);
\* trace: the trace id the caller sent with the request (X-Request-ID
\* header, invocation metadata); request_id: the handler's local variable;
\* fault: the step of the request that failed and the exception it raised
IdleWorker ==
    [pc |-> "idle", data |-> NonObject("null"), trace |-> ABSENT,
     request_id |-> ABSENT, cleaned |-> <<>>,
     segment |-> <<>>, confidence |-> 0, conn |-> NoConn, exc |-> "",
     recent_rows |-> <<>>, status |-> "", error |-> "", inserted |-> 0,
     t_reach |-> 0, t_refused |-> 0, fault |-> <<>>, ops |-> <<>>,
     e_msg |-> "", logged |-> "", cancelled |-> FALSE,
     clean_arg |-> <<>>,
     response |-> NoResponse]

\* the process as it starts: no pool yet, no request
ProcessInit ==
    /\ adapter \in {"http", "rpc"}
    /\ DB_MAX_POOL \in 1..MaxPoolCfg
    /\ boot = "init_db_pool"
    /\ pool_ready = FALSE
    /\ pool_idle = <<>>
    /\ pool_used = [h \in Holders |-> NoConn]
    /\ txn = [c \in ConnIds |-> IdleTxn]
    /\ served = 0
    /\ now = 0
    /\ wk = [w \in Workers |-> IdleWorker]

Init ==
    /\ ProcessInit
    /\ table_exists \in BOOLEAN      \* the table may exist from a prior run
    /\ index_exists = table_exists
    /\ rows = <<>>
    /\ clock = 1

\* the rows a prior run of the service stored, of two customers
PriorRow(i) ==
    [customer_id |-> IF i % 3 = 0 THEN <<"v">> ELSE <<"u">>,
     segment |-> IF i % 2 = 0 THEN HIGH_VALUE ELSE AT_RISK,
     confidence |-> IF i % 2 = 0 THEN 8500 ELSE 7500,
     processed_at |-> i]

PriorStores == { [i \in 1..n |-> PriorRow(i)] : n \in 0..MaxPrior }

\* the process starts against a store that a prior run may have filled
LifeInit ==
    /\ ProcessInit
    /\ rows \in PriorStores
    /\ table_exists \in (IF rows = <<>> THEN BOOLEAN ELSE {TRUE})
    /\ index_exists = table_exists
    /\ clock = Len(rows) + 1

(***************************************************************************)
(* psycopg2.pool.SimpleConnectionPool, as the code uses it.                *)
(***************************************************************************)
UsedConns == { pool_used[h] : h \in Holders } \ {NoConn}
InUse == Cardinality({ h \in Holders : pool_used[h] # NoConn })
IdleConns == { pool_idle[i] : i \in 1..Len(pool_idle) }

\* a pool that does not keep track of the connections it has handed out
NewConnMutant == CHOOSE c \in ConnIds :
               /\ c \notin IdleConns
               /\ \A d \in ConnIds : d \notin IdleConns => c <= d

\* a connection object that is in neither _pool nor _used
NewConn == CHOOSE c \in ConnIds :
               /\ c \notin UsedConns \cup IdleConns
               /\ \A d \in ConnIds : d \notin UsedConns \cup IdleConns => c <= d

PoolExhaustedMutant == pool_idle = <<>> /\ InUse > DB_MAX_POOL

\* getconn raises PoolError: nothing idle and maxconn connections in use
PoolExhausted == pool_idle = <<>> /\ InUse = DB_MAX_POOL

\* getconn has to open a connection: nothing idle, fewer than maxconn in use
MustConnect == pool_idle = <<>> /\ ~PoolExhausted

\* the connection getconn hands out: _pool.pop(), else a new one
GetconnResult == IF pool_idle # <<>> THEN pool_idle[Len(pool_idle)] ELSE NewConn

\* getconn(), successful, for holder h
Getconn(h) ==
    /\ ~PoolExhausted
    /\ pool_used' = [pool_used EXCEPT ![h] = GetconnResult]
    /\ pool_idle' = IF pool_idle # <<>>
                    THEN SubSeq(pool_idle, 1, Len(pool_idle) - 1)
                    ELSE pool_idle

\* a release that leaves the connection among those in use
PutconnMutant(h) ==
    UNCHANGED <<pool_used, pool_idle, txn>>

\* putconn(conn) of holder h: keep the connection while fewer than minconn
\* are idle (rolling back what it left open), else close it
Putconn(h) ==
    LET c == pool_used[h]
    IN  /\ pool_used' = [pool_used EXCEPT ![h] = NoConn]
        /\ pool_idle' = IF Len(pool_idle) < DB_MIN_POOL
                        THEN Append(pool_idle, c) ELSE pool_idle
        /\ txn' = [txn EXCEPT ![c] =
                     IF @.state = "idle" THEN @
                     ELSE [state |-> "idle", pending |-> <<>>,
                           ended_by |-> "pool"]]

(***************************************************************************)
(* Startup: init_db_pool() then init_schema(), then the server accepts     *)
(* requests (rest_server.py 104-107, grpc_server.py 275-292).              *)
(***************************************************************************)
\* init_db_pool without the test of db_pool: every call builds a pool
InitDbPoolMutant ==
    /\ boot \in {"init_db_pool", "init_db_pool_again"}
    /\ \/ /\ pool_ready' = TRUE
          /\ pool_idle' = [i \in 1..DB_MIN_POOL |-> i]
          /\ boot' = IF boot = "init_db_pool" THEN "schema_getconn" ELSE "serving"
       \/ /\ boot' = "exited"
          /\ UNCHANGED <<pool_ready, pool_idle>>
    /\ UNCHANGED <<adapter, DB_MAX_POOL, pool_used, txn, table_exists,
                   index_exists, rows, clock, served, now, wk>>

\* init_db_pool: returns at once when db_pool is set; else the pool opens
\* minconn connections; on failure sys.exit(1)
InitDbPool ==
    /\ boot \in {"init_db_pool", "init_db_pool_again"}
    /\ IF pool_ready
       THEN /\ boot' = "serving"
            /\ UNCHANGED <<pool_ready, pool_idle>>
       ELSE \/ /\ pool_ready' = TRUE
               /\ pool_idle' = [i \in 1..DB_MIN_POOL |-> i]
               /\ boot' = IF boot = "init_db_pool" THEN "schema_getconn"
                                                   ELSE "serving"
            \/ /\ boot' = "exited"
               /\ UNCHANGED <<pool_ready, pool_idle>>
    /\ UNCHANGED <<adapter, DB_MAX_POOL, pool_used, txn, table_exists,
                   index_exists, rows, clock, served, now, wk>>

\* init_db_pool() is called again in the running process
CallInitDbPool ==
    /\ boot = "serving"
    /\ boot' = "init_db_pool_again"
    /\ UNCHANGED <<adapter, DB_MAX_POOL, pool_ready, pool_idle, pool_used, txn,
                   table_exists, index_exists, rows, clock, served, now, wk>>

\* init_schema: conn = db_pool.getconn(); an exception is logged only
SchemaGetconn ==
    /\ boot = "schema_getconn"
    /\ \/ /\ Getconn(MAIN)
          /\ boot' = "schema_table"
       \/ /\ PoolExhausted \/ MustConnect
          /\ boot' = "serving"
          /\ UNCHANGED <<pool_idle, pool_used>>
    /\ UNCHANGED <<adapter, DB_MAX_POOL, pool_ready, txn, table_exists,
                   index_exists, rows, clock, served, now, wk>>

\* CREATE TABLE / CREATE INDEX without IF NOT EXISTS: the statement raises
\* when the object exists
SchemaExecuteMutant(at, next) ==
    /\ boot = at
    /\ \/ /\ ~(IF at = "schema_table" THEN table_exists ELSE index_exists)
          /\ txn' = [txn EXCEPT ![pool_used[MAIN]] =
                        [state |-> "active", pending |-> <<>>, ended_by |-> "none"]]
          /\ boot' = next
       \/ /\ txn' = [txn EXCEPT ![pool_used[MAIN]] =
                        [state |-> "aborted", pending |-> <<>>, ended_by |-> "none"]]
          /\ boot' = "schema_putconn"
    /\ UNCHANGED <<adapter, DB_MAX_POOL, pool_ready, pool_idle, pool_used,
                   table_exists, index_exists, rows, clock, served, now, wk>>

\* CREATE TABLE IF NOT EXISTS, then CREATE INDEX IF NOT EXISTS: each opens
\* or continues the transaction; a failure goes to the except clause
SchemaExecute(at, next) ==
    /\ boot = at
    /\ \/ /\ txn' = [txn EXCEPT ![pool_used[MAIN]] =
                        [state |-> "active", pending |-> <<>>, ended_by |-> "none"]]
          /\ boot' = next
       \/ /\ txn' = [txn EXCEPT ![pool_used[MAIN]] =
                        [state |-> "aborted", pending |-> <<>>, ended_by |-> "none"]]
          /\ boot' = "schema_putconn"
    /\ UNCHANGED <<adapter, DB_MAX_POOL, pool_ready, pool_idle, pool_used,
                   table_exists, index_exists, rows, clock, served, now, wk>>

SchemaCreateTable == SchemaExecute("schema_table", "schema_index")
SchemaCreateIndex == SchemaExecute("schema_index", "schema_commit")

\* conn.commit(): the table and the index exist from here on
SchemaCommit ==
    /\ boot = "schema_commit"
    /\ \/ /\ txn' = [txn EXCEPT ![pool_used[MAIN]] =
                        [state |-> "idle", pending |-> <<>>, ended_by |-> "commit"]]
          /\ table_exists' = TRUE
          /\ index_exists' = TRUE
       \/ /\ txn' = [txn EXCEPT ![pool_used[MAIN]] =
                        [state |-> "aborted", pending |-> <<>>, ended_by |-> "none"]]
          /\ UNCHANGED <<table_exists, index_exists>>
    /\ boot' = "schema_putconn"
    /\ UNCHANGED <<adapter, DB_MAX_POOL, pool_ready, pool_idle, pool_used,
                   rows, clock, served, now, wk>>

\* the release written at the end of the try body: only a committed
\* initializer gives its connection back
SchemaPutconnMutant ==
    /\ boot = "schema_putconn"
    /\ IF txn[pool_used[MAIN]].state = "idle"
       THEN Putconn(MAIN)
       ELSE UNCHANGED <<pool_idle, pool_used, txn>>
    /\ boot' = "serving"
    /\ UNCHANGED <<adapter, DB_MAX_POOL, pool_ready, table_exists,
                   index_exists, rows, clock, served, now, wk>>

\* finally: if conn: db_pool.putconn(conn)
SchemaPutconn ==
    /\ boot = "schema_putconn"
    /\ Putconn(MAIN)
    /\ boot' = "serving"
    /\ UNCHANGED <<adapter, DB_MAX_POOL, pool_ready, table_exists,
                   index_exists, rows, clock, served, now, wk>>

(***************************************************************************)
(* The error-to-status tables of the two adapters.                         *)
(***************************************************************************)
\* every store failure answered as an internal error
HttpStatusMutant(kind) ==
    CASE kind = "preprocess" -> <<"500", "Text preprocessing failed">>
      [] kind = "inference"  -> <<"500", "Model classification failed">>
      [] kind = "pool"       -> <<"503", "Database connection unavailable">>
      [] kind = "OperationalError" -> <<"500", "Database operation failed">>
      [] kind = "ProgrammingError" -> <<"500", "Database query failed">>
      [] kind = "Exception"  -> <<"500", "Database operation failed">>
      [] kind = "success"    -> <<"200", "">>

HttpStatus(kind) ==
    CASE kind = "preprocess" -> <<"500", "Text preprocessing failed">>
      [] kind = "inference"  -> <<"500", "Model classification failed">>
      [] kind = "pool"       -> <<"503", "Database connection unavailable">>
      [] kind = "OperationalError" -> <<"503", "Database connection failed">>
      [] kind = "ProgrammingError" -> <<"500", "Database query failed">>
      [] kind = "Exception"  -> <<"500", "Database operation failed">>
      [] kind = "success"    -> <<"200", "">>

RpcStatus(kind) ==
    CASE kind = "preprocess" -> <<"INTERNAL", "Text preprocessing failed">>
      [] kind = "inference"  -> <<"INTERNAL", "Model classification failed">>
      [] kind = "pool"       -> <<"RESOURCE_EXHAUSTED", "Database connection unavailable">>
      [] kind = "OperationalError" -> <<"UNAVAILABLE", "Database connection failed">>
      [] kind = "ProgrammingError" -> <<"INTERNAL", "Database query failed">>
      [] kind = "Exception"  -> <<"INTERNAL", "Database operation failed">>
      [] kind = "success"    -> <<"OK", "">>

StatusOf(a, kind) == IF a = "http" THEN HttpStatus(kind) ELSE RpcStatus(kind)

\* the response of a request that ends with an error
ErrorResponse(status, error) ==
    [NoResponse EXCEPT !.status = status, !.error = error]

\* the texts an exception of a collaborator may carry
ExceptionMessages == { "connection to 10.0.0.5:5432 refused",
                       "password authentication failed for user postgres" }

\* the text of the exceptions in the runs where it plays no part
PlainMessage == "connection to 10.0.0.5:5432 refused"

\* logger.error(f"[{request_id}] ...: {e}"): the exception's text goes to
\* the log
LogError(r) == [r EXCEPT !.logged = r.e_msg]

\* an error return that sends str(e) to the caller
FailMutant(r, status, error, op) ==
    [r EXCEPT !.pc = "done", !.status = status, !.error = r.e_msg,
              !.fault = op,
              !.ops = @ \o op,
              !.response = ErrorResponse(status, r.e_msg)]

\* the worker record after "return jsonify(error), status" or
\* context.abort(status, error) outside the try statement
Fail(r, status, error, op) ==
    [r EXCEPT !.pc = "done", !.status = status, !.error = error,
              !.fault = op,
              !.ops = @ \o op,
              !.response = ErrorResponse(status, error)]

(***************************************************************************)
(* The store: SELECT ... WHERE customer_id = %s ORDER BY processed_at      *)
(* DESC LIMIT 5.                                                           *)
(***************************************************************************)
RECURSIVE SortDesc(_)
SortDesc(set) ==
    IF set = {} THEN <<>>
    ELSE LET m == CHOOSE r \in set :
                      \A q \in set : q.processed_at <= r.processed_at
         IN  <<m>> \o SortDesc(set \ {m})

RowsOf(customer_id) ==
    { rows[i] : i \in { j \in 1..Len(rows) : rows[j].customer_id = customer_id } }

Prefix(seq, n) == SubSeq(seq, 1, IF Len(seq) < n THEN Len(seq) ELSE n)

\* the history read without the WHERE clause
HistoryQueryMutant(customer_id) ==
    Prefix(SortDesc({ rows[i] : i \in 1..Len(rows) }), HISTORY_LIMIT)

HistoryQuery(customer_id) == Prefix(SortDesc(RowsOf(customer_id)), HISTORY_LIMIT)

\* the history list built in reverse fetch order
HistoryEntriesMutant(recent_rows) ==
    [i \in 1..Len(recent_rows) |->
        [timestamp |-> recent_rows[Len(recent_rows) + 1 - i].processed_at,
         segment |-> recent_rows[Len(recent_rows) + 1 - i].segment,
         confidence |-> recent_rows[Len(recent_rows) + 1 - i].confidence]]

\* the history list built from recent_rows (rest_server.py 263-270)
HistoryEntries(recent_rows) ==
    [i \in 1..Len(recent_rows) |->
        [timestamp |-> recent_rows[i].processed_at,
         segment |-> recent_rows[i].segment,
         confidence |-> recent_rows[i].confidence]]

\* the success payload with the request's own row left out of the history
SuccessResponseMutant(r, status) ==
    [status |-> status, error |-> "",
     request_id |-> r.request_id,
     customer_id |-> r.data.customer_id,
     segment |-> r.segment,
     confidence |-> r.confidence,
     history_count |-> Len(HistoryEntries(r.recent_rows)),
     recent_classifications |->
         Prefix(SelectSeq(HistoryEntries(r.recent_rows),
                          LAMBDA e : e.timestamp # r.inserted),
                RESPONSE_HISTORY)]

\* the success payload (rest_server.py 275-283, grpc_server.py 252-260)
SuccessResponse(r, status) ==
    [status |-> status, error |-> "",
     request_id |-> r.request_id,
     customer_id |-> r.data.customer_id,
     segment |-> r.segment,
     confidence |-> r.confidence,
     history_count |-> Len(HistoryEntries(r.recent_rows)),
     recent_classifications |->
         Prefix(HistoryEntries(r.recent_rows), RESPONSE_HISTORY)]

(***************************************************************************)
(* classify / Classify, one request on worker thread w.                    *)
(***************************************************************************)
StoreUnchanged == UNCHANGED <<table_exists, index_exists, rows, clock>>
PoolUnchanged == UNCHANGED <<pool_ready, pool_idle, pool_used>>
ConfigUnchanged == UNCHANGED <<adapter, DB_MAX_POOL, boot, now>>

Free(w) == wk[w].pc \in {"idle", "done"}

\* uuid.uuid4(), as a value that no caller sends
GENERATED == [kind |-> "uuid", s |-> <<>>, truthy |-> TRUE]

\* rest_server.py 122: request.headers.get('X-Request-ID', str(uuid.uuid4()))
HttpRequestId(trace) == IF trace = ABSENT THEN GENERATED ELSE trace

\* grpc_server.py 116: str(uuid.uuid4())
RpcRequestId(trace) == GENERATED

RequestId(a, trace) ==
    IF a = "http" THEN HttpRequestId(trace) ELSE RpcRequestId(trace)

\* the server hands a request to a free worker thread (the threads are
\* interchangeable: the lowest-numbered free one takes it)
Accept(w, data, trace, msg, limit) ==
    /\ boot = "serving"
    /\ Free(w)
    /\ \A v \in Workers : v < w => ~Free(v)
    /\ served < limit
    /\ served' = served + 1
    /\ wk' = [wk EXCEPT ![w] =
                [IdleWorker EXCEPT !.pc = "validate", !.data = data,
                                   !.trace = trace, !.e_msg = msg,
                                   !.request_id = RequestId(adapter, trace)]]
    /\ ConfigUnchanged /\ PoolUnchanged /\ StoreUnchanged
    /\ UNCHANGED txn

\* a request arrives while others may be in flight
Receive(w) ==
    \E data \in CorePayloads(adapter) : Accept(w, data, ABSENT, PlainMessage, MaxRequests)

\* a request arrives at a server that handles one request at a time
ReceiveAlone(w) ==
    /\ \A v \in Workers : Free(v)
    /\ \E data \in Payloads(adapter) : Accept(w, data, ABSENT, PlainMessage, MaxSeqRequests)

\* the trace ids callers send: none, or one
TraceIds == { ABSENT, StrVal(<<"t">>) }

\* a request arrives, with or without a trace id, at a server that handles
\* one request at a time
ReceiveTraced(w) ==
    /\ \A v \in Workers : Free(v)
    /\ \E data \in CorePayloads(adapter), trace \in TraceIds :
          Accept(w, data, trace, PlainMessage, MaxLifeRequests)

\* rest_server.py 127-168, grpc_server.py 123-149
ValidateRequest(w) ==
    /\ wk[w].pc = "validate"
    /\ LET out == Validate(adapter, wk[w].data)
       IN  wk' = [wk EXCEPT ![w] =
                IF out.ok
                THEN [@ EXCEPT !.pc = "clean", !.ops = @ \o <<"validate">>]
                ELSE Fail(@, out.status, out.error, <<"validate">>)]
    /\ ConfigUnchanged /\ PoolUnchanged /\ StoreUnchanged
    /\ UNCHANGED <<txn, served>>

\* a cleaning failure that is only logged: the request goes on to scoring
\* with an empty text
CleanTextMutant(w) ==
    /\ wk[w].pc = "clean"
    /\ \/ wk' = [wk EXCEPT ![w] =
                [@ EXCEPT !.pc = "score",
                          !.clean_arg = wk[w].data.review_text.s,
                          !.cleaned = clean_text(wk[w].data.review_text.s),
                          !.ops = @ \o <<"clean_text">>]]
       \/ wk' = [wk EXCEPT ![w] =
                [@ EXCEPT !.pc = "score", !.fault = <<"clean_text">>,
                          !.ops = @ \o <<"clean_text">>]]
    /\ ConfigUnchanged /\ PoolUnchanged /\ StoreUnchanged
    /\ UNCHANGED <<txn, served>>

\* rest_server.py 176-181, grpc_server.py 156-161
CleanText(w) ==
    /\ wk[w].pc = "clean"
    /\ \/ wk' = [wk EXCEPT ![w] =
                [@ EXCEPT !.pc = "score",
                          !.clean_arg = wk[w].data.review_text.s,
                          !.cleaned = clean_text(wk[w].data.review_text.s),
                          !.ops = @ \o <<"clean_text">>]]
       \/ wk' = [wk EXCEPT ![w] =
                LogError(Fail(@, StatusOf(adapter, "preprocess")[1],
                     StatusOf(adapter, "preprocess")[2], <<"clean_text">>))]
    /\ ConfigUnchanged /\ PoolUnchanged /\ StoreUnchanged
    /\ UNCHANGED <<txn, served>>

\* rest_server.py 184-192, grpc_server.py 163-171
Score(w) ==
    /\ wk[w].pc = "score"
    /\ \/ \E res \in get_classification(wk[w].cleaned) :
            wk' = [wk EXCEPT ![w] =
                [@ EXCEPT !.pc = "getconn",
                          !.segment = res[1], !.confidence = res[2],
                          !.t_reach = now,
                          !.ops = @ \o <<"get_classification">>]]
       \/ wk' = [wk EXCEPT ![w] =
                LogError(Fail(@, StatusOf(adapter, "inference")[1],
                     StatusOf(adapter, "inference")[2], <<"get_classification">>))]
    /\ ConfigUnchanged /\ PoolUnchanged /\ StoreUnchanged
    /\ UNCHANGED <<txn, served>>

\* an acquisition that waits without limit when the pool is exhausted
AcquireConnectionMutant(w) ==
    /\ wk[w].pc = "getconn"
    /\ \/ /\ Getconn(w)
          /\ wk' = [wk EXCEPT ![w] =
                [@ EXCEPT !.pc = "insert", !.conn = GetconnResult,
                          !.ops = @ \o <<"getconn">>]]
       \/ /\ MustConnect
          /\ wk' = [wk EXCEPT ![w] =
                [@ EXCEPT !.pc = "except", !.exc = "OperationalError",
                          !.fault = <<"getconn", "OperationalError">>,
                          !.ops = @ \o <<"getconn">>]]
          /\ UNCHANGED <<pool_idle, pool_used>>
       \/ /\ PoolExhausted
          /\ wk' = [wk EXCEPT ![w] =
                [@ EXCEPT !.pc = "waiting", !.t_refused = now,
                          !.fault = <<"getconn", "PoolError">>,
                          !.ops = @ \o <<"getconn">>]]
          /\ UNCHANGED <<pool_idle, pool_used>>
    /\ ConfigUnchanged /\ StoreUnchanged
    /\ UNCHANGED <<pool_ready, txn, served>>

\* rest_server.py 197-202, grpc_server.py 175-180: conn = db_pool.getconn()
\* PoolError: the HTTP handler returns 503 from inside the try statement;
\* the RPC handler calls context.abort there, which raises an Exception
\* that the try statement's own "except Exception" clause catches
AcquireConnection(w) ==
    /\ wk[w].pc = "getconn"
    /\ \/ /\ Getconn(w)
          /\ wk' = [wk EXCEPT ![w] =
                [@ EXCEPT !.pc = "insert", !.conn = GetconnResult,
                          !.ops = @ \o <<"getconn">>]]
       \/ /\ MustConnect          \* psycopg2.connect fails
          /\ wk' = [wk EXCEPT ![w] =
                [@ EXCEPT !.pc = "except", !.exc = "OperationalError",
                          !.fault = <<"getconn", "OperationalError">>,
                          !.ops = @ \o <<"getconn">>]]
          /\ UNCHANGED <<pool_idle, pool_used>>
       \/ /\ PoolExhausted
          /\ wk' = [wk EXCEPT ![w] =
                IF adapter = "http"
                THEN [@ EXCEPT !.pc = "finally",
                               !.status = HttpStatus("pool")[1],
                               !.error = HttpStatus("pool")[2],
                               !.t_refused = now,
                               !.fault = <<"getconn", "PoolError">>,
                               !.logged = wk[w].e_msg,
                               !.ops = @ \o <<"getconn", "PoolError">>]
                ELSE [@ EXCEPT !.pc = "except", !.exc = "Exception",
                               !.status = RpcStatus("pool")[1],
                               !.error = RpcStatus("pool")[2],
                               !.t_refused = now,
                               !.fault = <<"getconn", "PoolError">>,
                               !.logged = wk[w].e_msg,
                               !.ops = @ \o <<"getconn", "PoolError", "abort">>]]
          /\ UNCHANGED <<pool_idle, pool_used>>
    /\ ConfigUnchanged /\ StoreUnchanged
    /\ UNCHANGED <<pool_ready, txn, served>>

\* the row written with the trimmed customer_id
NewRowMutant(r) ==
    [customer_id |-> Strip(r.data.customer_id.s), segment |-> r.segment,
     confidence |-> r.confidence, processed_at |-> clock]

\* rest_server.py 206-210: the values of the INSERT; processed_at is the
\* column default
NewRow(r) ==
    [customer_id |-> r.data.customer_id.s, segment |-> r.segment,
     confidence |-> r.confidence, processed_at |-> clock]

\* a store statement of worker w raises e: the transaction is aborted and
\* control goes to the except clauses
Raise(w, e, op) ==
    /\ e \in DbErrors
    /\ wk' = [wk EXCEPT ![w] =
                [@ EXCEPT !.pc = "except", !.exc = e, !.fault = <<op, e>>,
                          !.ops = @ \o <<op>>]]
    /\ txn' = [txn EXCEPT ![wk[w].conn] =
                [state |-> "aborted", pending |-> <<>>, ended_by |-> "none"]]

\* the history read issued right after the INSERT, before its commit
InsertMutant(w) ==
    /\ wk[w].pc = "insert"
    /\ \/ /\ table_exists
          /\ wk' = [wk EXCEPT ![w] =
                [@ EXCEPT !.pc = "query", !.inserted = clock,
                          !.ops = @ \o <<"insert">>]]
          /\ txn' = [txn EXCEPT ![wk[w].conn] =
                [state |-> "active", pending |-> <<NewRow(wk[w])>>,
                 ended_by |-> "none"]]
          /\ clock' = clock + 1
       \/ /\ \E e \in DbErrors : Raise(w, e, "insert")
          /\ UNCHANGED clock
    /\ ConfigUnchanged /\ PoolUnchanged
    /\ UNCHANGED <<table_exists, index_exists, rows, served>>

\* rest_server.py 205-210: INSERT INTO customer_segments
Insert(w) ==
    /\ wk[w].pc = "insert"
    /\ \/ /\ table_exists
          /\ wk' = [wk EXCEPT ![w] =
                [@ EXCEPT !.pc = "commit", !.inserted = clock,
                          !.ops = @ \o <<"insert">>]]
          /\ txn' = [txn EXCEPT ![wk[w].conn] =
                [state |-> "active", pending |-> <<NewRow(wk[w])>>,
                 ended_by |-> "none"]]
          /\ clock' = clock + 1
       \/ /\ \E e \in DbErrors : Raise(w, e, "insert")
          /\ UNCHANGED clock
    /\ ConfigUnchanged /\ PoolUnchanged
    /\ UNCHANGED <<table_exists, index_exists, rows, served>>

\* the commit of an upsert: the customer's earlier rows are replaced
CommitMutant(w) ==
    /\ wk[w].pc = "commit"
    /\ \/ /\ wk' = [wk EXCEPT ![w] =
                [@ EXCEPT !.pc = "query", !.ops = @ \o <<"commit">>]]
          /\ rows' = SelectSeq(rows, LAMBDA r :
                                  r.customer_id # wk[w].data.customer_id.s)
                     \o txn[wk[w].conn].pending
          /\ txn' = [txn EXCEPT ![wk[w].conn] =
                [state |-> "idle", pending |-> <<>>, ended_by |-> "commit"]]
       \/ /\ \E e \in DbErrors : Raise(w, e, "commit")
          /\ UNCHANGED rows
    /\ ConfigUnchanged /\ PoolUnchanged
    /\ UNCHANGED <<table_exists, index_exists, clock, served>>

\* rest_server.py 211: conn.commit()
Commit(w) ==
    /\ wk[w].pc = "commit"
    /\ \/ /\ wk' = [wk EXCEPT ![w] =
                [@ EXCEPT !.pc = "query", !.ops = @ \o <<"commit">>]]
          /\ rows' = rows \o txn[wk[w].conn].pending
          /\ txn' = [txn EXCEPT ![wk[w].conn] =
                [state |-> "idle", pending |-> <<>>, ended_by |-> "commit"]]
       \/ /\ \E e \in DbErrors : Raise(w, e, "commit")
          /\ UNCHANGED rows
    /\ ConfigUnchanged /\ PoolUnchanged
    /\ UNCHANGED <<table_exists, index_exists, clock, served>>

\* a history read that waits while another request of the same customer
\* has an insert not yet committed
QueryMutant(w) ==
    /\ wk[w].pc = "query"
    /\ \A v \in Workers \ {w} :
          ~(wk[v].pc = "commit" /\ wk[v].data = wk[w].data)
    /\ \/ /\ wk' = [wk EXCEPT ![w] =
                [@ EXCEPT !.pc = "finally",
                          !.recent_rows = HistoryQuery(wk[w].data.customer_id.s),
                          !.status = StatusOf(adapter, "success")[1],
                          !.ops = @ \o <<"query">>]]
          /\ txn' = [txn EXCEPT ![wk[w].conn] =
                [state |-> "active", pending |-> <<>>, ended_by |-> "none"]]
       \/ \E e \in DbErrors : Raise(w, e, "query")
    /\ ConfigUnchanged /\ PoolUnchanged /\ StoreUnchanged
    /\ UNCHANGED served

\* rest_server.py 216-224: the history SELECT and fetchall(); the SELECT
\* opens a new transaction on the connection
Query(w) ==
    /\ wk[w].pc = "query"
    /\ \/ /\ wk' = [wk EXCEPT ![w] =
                [@ EXCEPT !.pc = "finally",
                          !.recent_rows = HistoryQuery(wk[w].data.customer_id.s),
                          !.status = StatusOf(adapter, "success")[1],
                          !.ops = @ \o <<"query">>]]
          /\ txn' = [txn EXCEPT ![wk[w].conn] =
                [state |-> "active", pending |-> <<>>, ended_by |-> "none"]]
       \/ \E e \in DbErrors : Raise(w, e, "query")
    /\ ConfigUnchanged /\ PoolUnchanged /\ StoreUnchanged
    /\ UNCHANGED served

\* except clauses that undo the request: besides the rollback they delete
\* the row the request had committed
ExceptUndoMutant(w) ==
    /\ wk[w].pc = "except"
    /\ LET st == StatusOf(adapter, wk[w].exc)
           c == wk[w].conn
       IN  \/ /\ c # NoConn
              /\ txn' = [txn EXCEPT ![c] =
                    [state |-> "idle", pending |-> <<>>, ended_by |-> "rollback"]]
              /\ rows' = SelectSeq(rows, LAMBDA r :
                                      r.processed_at # wk[w].inserted)
              /\ wk' = [wk EXCEPT ![w] =
                    [@ EXCEPT !.pc = "finally", !.status = st[1], !.error = st[2],
                              !.logged = wk[w].e_msg,
                              !.ops = @ \o <<"rollback">>]]
           \/ /\ c = NoConn
              /\ UNCHANGED <<txn, rows>>
              /\ wk' = [wk EXCEPT ![w] =
                    [@ EXCEPT !.pc = "finally", !.status = st[1], !.error = st[2],
                              !.logged = wk[w].e_msg]]
    /\ ConfigUnchanged /\ PoolUnchanged
    /\ UNCHANGED <<table_exists, index_exists, clock, served>>

\* the except clauses written without the rollback
ExceptMutant(w) ==
    /\ wk[w].pc = "except"
    /\ LET st == StatusOf(adapter, wk[w].exc)
       IN  /\ UNCHANGED txn
           /\ wk' = [wk EXCEPT ![w] =
                 [@ EXCEPT !.pc = "finally", !.status = st[1], !.error = st[2],
                              !.logged = wk[w].e_msg]]
    /\ ConfigUnchanged /\ PoolUnchanged /\ StoreUnchanged
    /\ UNCHANGED served

\* rest_server.py 231-256, grpc_server.py 209-234: the except clause chosen
\* by the exception's class: if conn, conn.rollback() with its own failure
\* swallowed; then the status of that clause
Except(w) ==
    /\ wk[w].pc = "except"
    /\ LET st == StatusOf(adapter, wk[w].exc)
           c == wk[w].conn
       IN  \/ /\ c # NoConn           \* rollback succeeds
              /\ txn' = [txn EXCEPT ![c] =
                    [state |-> "idle", pending |-> <<>>, ended_by |-> "rollback"]]
              /\ wk' = [wk EXCEPT ![w] =
                    [@ EXCEPT !.pc = "finally", !.status = st[1], !.error = st[2],
                              !.logged = wk[w].e_msg,
                              !.ops = @ \o <<"rollback">>]]
           \/ /\ c # NoConn           \* rollback raises: except: pass
              /\ UNCHANGED txn
              /\ wk' = [wk EXCEPT ![w] =
                    [@ EXCEPT !.pc = "finally", !.status = st[1], !.error = st[2],
                              !.logged = wk[w].e_msg,
                              !.ops = @ \o <<"rollback", "rollback_failed">>]]
           \/ /\ c = NoConn
              /\ UNCHANGED txn
              /\ wk' = [wk EXCEPT ![w] =
                    [@ EXCEPT !.pc = "finally", !.status = st[1], !.error = st[2],
                              !.logged = wk[w].e_msg]]
    /\ ConfigUnchanged /\ PoolUnchanged /\ StoreUnchanged
    /\ UNCHANGED served

\* the release written at the end of the try body instead of in a finally
\* clause: a request that caught an exception keeps its connection
FinallyMutant(w) ==
    /\ wk[w].pc = "finally"
    /\ IF wk[w].conn # NoConn /\ wk[w].exc = ""
       THEN Putconn(w)
       ELSE UNCHANGED <<pool_idle, pool_used, txn>>
    /\ wk' = [wk EXCEPT ![w] =
            [@ EXCEPT !.pc = "done",
                      !.ops = @ \o (IF wk[w].conn # NoConn /\ wk[w].exc = ""
                                    THEN <<"putconn">> ELSE <<>>),
                      !.response =
                          IF wk[w].status = StatusOf(adapter, "success")[1]
                          THEN SuccessResponse(wk[w], wk[w].status)
                          ELSE ErrorResponse(wk[w].status, wk[w].error)]]
    /\ ConfigUnchanged /\ StoreUnchanged
    /\ UNCHANGED <<pool_ready, served>>

\* rest_server.py 258-289, grpc_server.py 236-266: finally: if conn:
\* db_pool.putconn(conn); then the pending return or abort takes effect,
\* or the success response is built
Finally(w) ==
    /\ wk[w].pc = "finally"
    /\ IF wk[w].conn # NoConn
       THEN Putconn(w)
       ELSE UNCHANGED <<pool_idle, pool_used, txn>>
    /\ wk' = [wk EXCEPT ![w] =
            [@ EXCEPT !.pc = "done",
                      !.ops = @ \o (IF wk[w].conn # NoConn THEN <<"putconn">> ELSE <<>>),
                      !.response =
                          IF wk[w].status = StatusOf(adapter, "success")[1]
                          THEN SuccessResponse(wk[w], wk[w].status)
                          ELSE ErrorResponse(wk[w].status, wk[w].error)]]
    /\ ConfigUnchanged /\ StoreUnchanged
    /\ UNCHANGED <<pool_ready, served>>

\* a caller that goes away takes the handler with it: the thread stops
\* where it is, with whatever it holds
CancelMutant(w) ==
    /\ wk[w].pc \notin {"idle", "done"}
    /\ pool_used[w] # NoConn
    /\ ~wk[w].cancelled
    /\ wk' = [wk EXCEPT ![w] = [@ EXCEPT !.cancelled = TRUE, !.pc = "done"]]
    /\ ConfigUnchanged /\ PoolUnchanged /\ StoreUnchanged
    /\ UNCHANGED <<txn, served>>

\* locust_gRPC.py 22: stub.Classify(request, timeout=5); the caller's
\* deadline expires, or the caller disconnects, while its request is being
\* handled. Neither handler looks at the state of the call
\* (grpc_server.py 106-266 never reads context.is_active() and registers
\* no callback; rest_server.py 116-289 runs in the request's thread), so the
\* handler's thread goes on. The moments followed are those at which the
\* request holds a connection
Cancel(w) ==
    /\ wk[w].pc \notin {"idle", "done"}
    /\ pool_used[w] # NoConn
    /\ ~wk[w].cancelled
    /\ wk' = [wk EXCEPT ![w] = [@ EXCEPT !.cancelled = TRUE]]
    /\ ConfigUnchanged /\ PoolUnchanged /\ StoreUnchanged
    /\ UNCHANGED <<txn, served>>

\* time passes
Tick ==
    /\ now < MaxTime
    /\ now' = now + 1
    /\ UNCHANGED <<adapter, DB_MAX_POOL, boot, pool_ready, pool_idle, pool_used,
                   txn, table_exists, index_exists, rows, clock, served, wk>>

Startup ==
    \/ InitDbPool
    \/ SchemaGetconn
    \/ SchemaCreateTable
    \/ SchemaCreateIndex
    \/ SchemaCommit
    \/ SchemaPutconn

Process(w) ==
    \/ ValidateRequest(w)
    \/ CleanText(w)
    \/ Score(w)
    \/ AcquireConnection(w)
    \/ Insert(w)
    \/ Commit(w)
    \/ Query(w)
    \/ Except(w)
    \/ Finally(w)

\* the store failures met by requests that run concurrently are connection
\* failures; the other kinds are met by requests handled one at a time
CoreErrors == {"OperationalError", "PoolError"}

CoreProcess(w) ==
    /\ Process(w)
    /\ Len(wk'[w].fault) = 2 => wk'[w].fault[2] \in CoreErrors

\* worker threads handle requests concurrently
Next == Startup \/ \E w \in Workers : Receive(w) \/ CoreProcess(w)

Spec == Init /\ [][Next]_vars

\* the server configured with a pool of one connection
OneConnInit == Init /\ DB_MAX_POOL = 1

\* the concurrent server with its threads scheduled fairly: the startup
\* code and each worker thread keep running, and every call a handler
\* makes returns

Fairness ==
    /\ WF_vars(Startup)
    /\ \A w \in Workers : WF_vars(CoreProcess(w))

SpecFair == OneConnInit /\ [][Next]_vars /\ Fairness

\* a request arrives whose collaborators, if they raise, raise with text m
ReceiveFaulty(w) ==
    \E data \in CorePayloads(adapter), m \in ExceptionMessages :
        Accept(w, data, ABSENT, m, MaxRequests)

\* the concurrent server with a pool of one connection, every class of
\* store error, and exceptions that carry one text or another
MsgNext ==
    \/ Startup
    \/ \E w \in Workers : ReceiveFaulty(w) \/ Process(w)

SpecMsg == OneConnInit /\ [][MsgNext]_vars

\* the concurrent server with a pool of one connection, callers that may
\* go away while their request holds a connection, and threads scheduled
\* fairly
CancelNext == Next \/ \E w \in Workers : Cancel(w)

SpecCancel == OneConnInit /\ [][CancelNext]_vars /\ Fairness

\* requests whose fields are valid strings with and without surrounding
\* whitespace, or a text that is too long only with its blanks
TrimPayloads ==
    { Object(StrVal(c), StrVal(t)) :
        c \in { <<"u">>, <<" ", "u">> },
        t \in { <<"L", "O", "V", "E">>, <<" ", "o", "k">>,
                <<" ", "o", "k", " ", " ">> } }

ReceiveTrim(w) ==
    /\ \A v \in Workers : Free(v)
    /\ \E data \in TrimPayloads :
          Accept(w, data, ABSENT, PlainMessage, MaxSeqRequests)

\* one request at a time, fields with surrounding whitespace
TrimNext == Startup \/ \E w \in Workers : ReceiveTrim(w) \/ Process(w)

SpecTrim == Init /\ [][TrimNext]_vars

\* one request at a time, any payload
SeqNext == Startup \/ \E w \in Workers : ReceiveAlone(w) \/ Process(w)

SpecSeq == Init /\ [][SeqNext]_vars

\* the concurrent server with a pool of one connection, and time passing
TimedInit == Init /\ DB_MAX_POOL = 1 /\ table_exists

TimedNext == Next \/ Tick

SpecTimed == TimedInit /\ [][TimedNext]_vars

\* the life of one process against a persistent store: requests one at a
\* time, with or without a trace id, and repeated calls of init_db_pool
LifeNext ==
    \/ Startup
    \/ CallInitDbPool
    \/ \E w \in Workers : ReceiveTraced(w) \/ Process(w)

SpecLife == LifeInit /\ [][LifeNext]_vars

(***************************************************************************)
(* Properties.                                                             *)
(***************************************************************************)
Done(w) == wk[w].pc = "done"
Count(seq, x) == Cardinality({ i \in 1..Len(seq) : seq[i] = x })
Refused(w) == wk[w].fault = <<"getconn", "PoolError">>
Answered(w) == wk[w].response.status # ""

C2_ReleaseGuarantee ==
    /\ \A w \in Workers :
         Answered(w) =>
            /\ pool_used[w] = NoConn
            /\ Count(wk[w].ops, "putconn") = (IF wk[w].conn # NoConn THEN 1 ELSE 0)
    /\ (boot = "serving" /\ \A w \in Workers : Free(w)) => InUse = 0

\* two requests have finished, one after a failure of a store step and a
\* failed rollback, both having held a connection
C2_Witness ==
    /\ served = MaxRequests
    /\ \A w \in Workers : Done(w) /\ wk[w].conn # NoConn
    /\ \E w \in Workers : wk[w].exc # "" /\ Count(wk[w].ops, "rollback_failed") = 1
    /\ InUse = 0

\* C3: when acquisition fails because the pool is exhausted, the caller's
\* final status is 503 (HTTP) or RESOURCE_EXHAUSTED (RPC), no row is
\* inserted and no connection is held afterwards.
C3_ExhaustedStatus ==
    \A w \in Workers :
        (Done(w) /\ Refused(w)) =>
            /\ wk[w].response.status =
                   (IF adapter = "http" THEN "503" ELSE "RESOURCE_EXHAUSTED")
            /\ wk[w].inserted = 0
            /\ pool_used[w] = NoConn

\* C4: PoolExhausted is signalled only after the acquisition timeout has
\* elapsed since the request reached acquisition (it waits that long for
\* a connection to be released).
C4_ExhaustedOnlyAfterTimeout ==
    \A w \in Workers :
        Refused(w) => wk[w].t_refused - wk[w].t_reach >= DB_CONN_TIMEOUT

ClientError == IF adapter = "http" THEN "400" ELSE "INVALID_ARGUMENT"
Success == IF adapter = "http" THEN "200" ELSE "OK"
IsBlankStr(v) == IsStr(v) /\ Strip(v.s) = <<>>
TooLong(v) == IsStr(v) /\ Len(v.s) > MAX_TEXT_LENGTH
NotRun(w, op) == Count(wk[w].ops, op) = 0
Handling(w) == wk[w].pc # "idle"

\* a field that is absent, empty or whitespace-only, or a review_text
\* longer than the maximum
C5_Case(data) ==
    /\ data.kind = "object"
    /\ \/ data.customer_id = ABSENT \/ IsBlankStr(data.customer_id)
       \/ data.review_text = ABSENT \/ IsBlankStr(data.review_text)
       \/ TooLong(data.review_text)

\* C5: a request with an absent, empty or whitespace-only customer_id or
\* review_text, or an over-long review_text, is answered with 400 /
\* INVALID_ARGUMENT and at no point of its handling is clean_text or
\* get_classification called, a connection acquired or a row inserted.
C5_InvalidRejectedWithoutEffects ==
    \A w \in Workers :
        (Handling(w) /\ C5_Case(wk[w].data)) =>
            /\ NotRun(w, "clean_text") /\ NotRun(w, "get_classification")
            /\ NotRun(w, "getconn") /\ NotRun(w, "insert")
            /\ wk[w].conn = NoConn /\ pool_used[w] = NoConn
            /\ wk[w].inserted = 0
            /\ Done(w) => wk[w].response.status = ClientError

\* a whitespace-only review_text with a good customer_id has been rejected
C5_Witness ==
    \E w \in Workers :
        /\ Done(w)
        /\ wk[w].data = Object(StrVal(<<"u">>), StrVal(<<" ", " ">>))
        /\ wk[w].response.status = ClientError

\* C6: in the HTTP adapter a request whose customer_id or review_text is
\* present but not a string is rejected with the 400 type-mismatch error,
\* whichever of the two fields it is, and no later stage runs.
C6_TypeRule ==
    \A w \in Workers :
        (/\ adapter = "http" /\ Done(w)
         /\ wk[w].data.kind = "object"
         /\ wk[w].data.customer_id # ABSENT /\ wk[w].data.review_text # ABSENT
         /\ ~IsStr(wk[w].data.customer_id) \/ ~IsStr(wk[w].data.review_text))
        => /\ wk[w].response.status = "400"
           /\ wk[w].response.error = "customer_id and review_text must be strings"
           /\ wk[w].ops = <<"validate">>

\* the earliest rule of the validator's order that a payload violates
EarliestRule(data) ==
    IF data.kind # "object" THEN "malformed"
    ELSE IF data.customer_id = ABSENT \/ data.review_text = ABSENT THEN "missing"
    ELSE IF ~IsStr(data.customer_id) \/ ~IsStr(data.review_text) THEN "type"
    ELSE IF IsBlankStr(data.customer_id) \/ IsBlankStr(data.review_text) THEN "empty"
    ELSE IF TooLong(data.review_text) THEN "too_large"
    ELSE "none"

\* the rule an error message reports
ReportedRule(error) ==
    CASE error \in {"Bad Request", "No JSON payload received"} -> "malformed"
      [] error = "Missing 'customer_id' or 'review_text'" -> "missing"
      [] error = "customer_id and review_text must be strings" -> "type"
      [] error \in {"customer_id cannot be empty", "review_text cannot be empty",
                    "customer_id must be a non-empty string",
                    "customer_id cannot be empty or whitespace",
                    "review_text must be a non-empty string",
                    "review_text cannot be empty or whitespace"} -> "empty"
      [] error = "review_text exceeds maximum length" -> "too_large"
      [] OTHER -> "other"

\* C7: the rules are applied in the order malformed, missing, type, empty,
\* too large and the response reports the earliest violated one; a payload
\* that is not a JSON object is answered with a 400 validation failure.
C7_FirstFailureWins ==
    \A w \in Workers :
        (Done(w) /\ EarliestRule(wk[w].data) # "none") =>
            /\ wk[w].response.status = ClientError
            /\ wk[w].data.kind = "object" =>
                   ReportedRule(wk[w].response.error) = EarliestRule(wk[w].data)

GoodCustomer(data) ==
    /\ data.kind = "object"
    /\ IsStr(data.customer_id) /\ ~IsBlankStr(data.customer_id)
    /\ IsStr(data.review_text) /\ ~IsBlankStr(data.review_text)

\* C8: a review_text of length MAX_TEXT_LENGTH passes the size rule; one
\* of length MAX_TEXT_LENGTH + 1, counted as supplied with its blanks, is
\* rejected with 400 / INVALID_ARGUMENT and the request persists no row.
C8_LengthBoundary ==
    \A w \in Workers :
        (Done(w) /\ GoodCustomer(wk[w].data)) =>
            /\ Len(wk[w].data.review_text.s) = MAX_TEXT_LENGTH =>
                   /\ Count(wk[w].ops, "clean_text") = 1
                   /\ wk[w].response.error # "review_text exceeds maximum length"
            /\ Len(wk[w].data.review_text.s) = MAX_TEXT_LENGTH + 1 =>
                   /\ wk[w].response.status = ClientError
                   /\ wk[w].response.error = "review_text exceeds maximum length"
                   /\ wk[w].ops = <<"validate">>
                   /\ wk[w].inserted = 0

\* a text of the maximum length was accepted and persisted (the only High-
\* Value input), then a text one longer than the maximum only by its
\* blanks was rejected
C8_Witness ==
    /\ \E i \in 1..Len(rows) : rows[i].segment = HIGH_VALUE
    /\ \E w \in Workers :
        /\ Done(w)
        /\ wk[w].data = Object(StrVal(<<"u">>), StrVal(<<" ", "o", "k", " ", " ">>))
        /\ wk[w].response.status = ClientError
        /\ Len(wk[w].data.review_text.s) = MAX_TEXT_LENGTH + 1
        /\ Len(Strip(wk[w].data.review_text.s)) < MAX_TEXT_LENGTH

\* no collaborator, pool or store step of the request failed
NoFault(w) == wk[w].fault \in { <<>>, <<"validate">> }

OwnRows(w) ==
    { i \in 1..Len(rows) : rows[i].processed_at = wk[w].inserted }

StoreFault(w) == wk[w].fault # <<>> /\ wk[w].fault[1] \in {"insert", "commit", "query"}

\* C10: a failure of insert, commit or history read maps by kind:
\* OperationalError to 503 / UNAVAILABLE, a query error and any other
\* error to 500 / INTERNAL; such a request never gets a success response.
C10_StoreFailureStatus ==
    \A w \in Workers :
        (Done(w) /\ StoreFault(w)) =>
            /\ wk[w].response.status =
                 (IF wk[w].fault[2] = "OperationalError"
                  THEN (IF adapter = "http" THEN "503" ELSE "UNAVAILABLE")
                  ELSE (IF adapter = "http" THEN "500" ELSE "INTERNAL"))
            /\ wk[w].response.status # Success

\* the history read of a request failed with a connection error after its
\* insert was committed
C10_Witness ==
    \E w \in Workers :
        /\ Done(w)
        /\ wk[w].fault = <<"query", "OperationalError">>
        /\ wk[w].response.status \in {"503", "UNAVAILABLE"}
        /\ Cardinality(OwnRows(w)) = 1

\* position of the first occurrence of x in seq, 0 if there is none
IndexOf(seq, x) ==
    IF \E i \in 1..Len(seq) : seq[i] = x
    THEN CHOOSE i \in 1..Len(seq) :
             seq[i] = x /\ \A j \in 1..(i - 1) : seq[j] # x
    ELSE 0

\* C11: on a failure after the connection was acquired (insert, commit or
\* history read), one rollback is attempted on the connection before it is
\* released; when the rollback itself fails the failure is swallowed, the
\* connection is still released and the status is that of the original
\* failure.
C11_RollbackBeforeRelease ==
    \A w \in Workers :
        /\ (wk[w].pc \in {"finally", "done"} /\ StoreFault(w)) =>
              Count(wk[w].ops, "rollback") = 1
        /\ (Done(w) /\ StoreFault(w)) =>
              /\ Count(wk[w].ops, "putconn") = 1
              /\ IndexOf(wk[w].ops, "rollback") < IndexOf(wk[w].ops, "putconn")
              /\ pool_used[w] = NoConn
              /\ wk[w].response.status = StatusOf(adapter, wk[w].fault[2])[1]
              /\ wk[w].response.error = StatusOf(adapter, wk[w].fault[2])[2]

\* a commit failed with a connection error, the rollback failed too, and
\* the request ended with the status of the commit failure
C11_Witness ==
    \E w \in Workers :
        /\ Done(w)
        /\ wk[w].fault = <<"commit", "OperationalError">>
        /\ Count(wk[w].ops, "rollback_failed") = 1
        /\ Count(wk[w].ops, "putconn") = 1
        /\ pool_used[w] = NoConn
        /\ wk[w].response.status \in {"503", "UNAVAILABLE"}

\* C12: whenever a connection is returned to the pool, by classify on its
\* success path or an error path or by the schema initializer, the code
\* has ended every transaction it started on it by a commit or a rollback:
\* the pool never receives a connection whose transaction is still open.
C12_TransactionsEndedBeforeRelease ==
    \A c \in ConnIds : txn[c].ended_by # "pool"

\* the collaborator call of the request that raised
CollaboratorFault(w) ==
    wk[w].fault \in { <<"clean_text">>, <<"get_classification">> }

\* C13: when text cleaning or scoring raises, the request ends with
\* HTTP 500 / RPC INTERNAL; on that path no pool connection is acquired and
\* no row is inserted, and a cleaning failure also prevents the scoring
\* call.
C13_CollaboratorFailure ==
    \A w \in Workers :
        CollaboratorFault(w) =>
            /\ Done(w)
            /\ wk[w].response.status = (IF adapter = "http" THEN "500" ELSE "INTERNAL")
            /\ wk[w].conn = NoConn /\ pool_used[w] = NoConn
            /\ NotRun(w, "getconn") /\ NotRun(w, "insert")
            /\ wk[w].inserted = 0 /\ OwnRows(w) = {}
            /\ (wk[w].fault = <<"clean_text">> => NotRun(w, "get_classification"))

\* a request failed in text cleaning after an earlier request had stored
\* a row, and another failed in scoring
C13_Witness ==
    /\ \E w \in Workers :
          /\ Done(w) /\ wk[w].fault = <<"clean_text">> /\ Len(rows) = 1
          /\ wk[w].response.status \in {"500", "INTERNAL"}
    /\ boot = "serving"

Min(a, b) == IF a < b THEN a ELSE b
Succeeded(w) == Done(w) /\ wk[w].response.status = Success

\* the rows of customer c in the store
StoredFor(c) == { rows[i] : i \in { j \in 1..Len(rows) : rows[j].customer_id = c } }

\* C14: a read for a customer returns that customer's rows most recent
\* first (inserted at t1 < t2 < t3, read as t3, t2, t1), at most 5 of them
\* and no row of another customer; the response's recent_classifications
\* are the first 2 of them at most, in the same order.
C14_HistoryOrdering ==
    \A w \in Workers :
        Succeeded(w) =>
            LET h == wk[w].recent_rows
                c == wk[w].data.customer_id.s
                rc == wk[w].response.recent_classifications
            IN  /\ Len(h) = Min(HISTORY_LIMIT, Cardinality(StoredFor(c)))
                /\ \A i \in 1..Len(h) : h[i] \in StoredFor(c)
                /\ \A i \in 1..(Len(h) - 1) :
                       h[i].processed_at > h[i + 1].processed_at
                /\ \A r \in StoredFor(c) :
                       (\A i \in 1..Len(h) : h[i] # r) =>
                           r.processed_at < h[Len(h)].processed_at
                /\ Len(rc) = Min(RESPONSE_HISTORY, Len(h))
                /\ \A i \in 1..Len(rc) :
                       /\ rc[i].timestamp = h[i].processed_at
                       /\ rc[i].segment = h[i].segment
                       /\ rc[i].confidence = h[i].confidence

\* a read found more than 5 rows of the customer, beside rows of another
\* customer, and returned the 5 latest; the response shows the latest 2
C14_Witness ==
    \E w \in Workers :
        /\ Succeeded(w)
        /\ Cardinality(StoredFor(wk[w].data.customer_id.s)) > HISTORY_LIMIT
        /\ Len(rows) > Cardinality(StoredFor(wk[w].data.customer_id.s))
        /\ Len(wk[w].recent_rows) = HISTORY_LIMIT
        /\ wk[w].recent_rows[1].processed_at = wk[w].inserted
        /\ wk[w].recent_rows[3].processed_at < wk[w].recent_rows[2].processed_at
        /\ Len(wk[w].response.recent_classifications) = RESPONSE_HISTORY
        /\ wk[w].response.history_count = HISTORY_LIMIT

\* C15: the recent classifications of a success response are prior
\* records of the customer, persisted before the row the request itself
\* inserted; the request's own row is not among them.
C15_HistoryIsPrior ==
    \A w \in Workers :
        Succeeded(w) =>
            \A i \in 1..Len(wk[w].response.recent_classifications) :
                wk[w].response.recent_classifications[i].timestamp < wk[w].inserted

\* C15, as the code behaves: the history is read after the request's own
\* row is committed, so with no other request running the first entry of
\* recent_classifications is the request's own row (its segment and
\* confidence those of the response) and any further entry is an earlier
\* record of the customer.
C15_HistoryStartsWithOwnRow ==
    \A w \in Workers :
        Succeeded(w) =>
            LET rc == wk[w].response.recent_classifications
            IN  /\ Len(rc) >= 1
                /\ rc[1].timestamp = wk[w].inserted
                /\ rc[1].segment = wk[w].response.segment
                /\ rc[1].confidence = wk[w].response.confidence
                /\ \A i \in 2..Len(rc) :
                       /\ rc[i].timestamp < wk[w].inserted
                       /\ \E r \in StoredFor(wk[w].data.customer_id.s) :
                              r.processed_at = rc[i].timestamp

\* a response carries the request's own row followed by an earlier record
C15_Witness ==
    \E w \in Workers :
        /\ Succeeded(w)
        /\ Len(wk[w].response.recent_classifications) = 2
        /\ wk[w].response.recent_classifications[1].timestamp = wk[w].inserted
        /\ wk[w].response.recent_classifications[2].timestamp < wk[w].inserted

\* C16: in each adapter, when the caller sends a trace id with the request
\* the request_id of the response is that id, and when none is sent it is
\* a generated id; the id is fixed when the handler starts and is the one
\* the handler uses throughout.
C16_RequestTracing ==
    \A w \in Workers :
        /\ Handling(w) =>
              wk[w].request_id =
                  (IF wk[w].trace = ABSENT THEN GENERATED ELSE wk[w].trace)
        /\ Succeeded(w) => wk[w].response.request_id = wk[w].request_id

\* C17: pool initialization completes before any classify request is
\* handled and a pool, once built, is built only once; when pool
\* initialization fails the process has exited and no request is ever
\* served; a call of init_db_pool made while a pool exists leaves the
\* pool, its idle connections and the connections in use as they are.
C17_StartupOrdering ==
    /\ [](\A w \in Workers :
             Handling(w) => pool_ready /\ boot \in {"serving", "init_db_pool_again"})
    /\ [](boot = "exited" =>
             ~pool_ready /\ served = 0 /\ \A w \in Workers : ~Handling(w))
    /\ [][boot = "exited" => boot' = "exited"]_vars
    /\ [][pool_ready =>
             /\ pool_ready'
             /\ (boot \in {"init_db_pool", "init_db_pool_again"} /\ boot' # boot =>
                    UNCHANGED <<pool_ready, pool_idle, pool_used>>)]_vars
    /\ [][(~pool_ready /\ pool_ready') =>
             boot = "init_db_pool" /\ served = 0]_vars

\* init_db_pool is called again while a request holds the only idle
\* connection
C17_Witness ==
    /\ boot = "init_db_pool_again"
    /\ pool_ready
    /\ pool_idle = <<>>
    /\ \E w \in Workers : pool_used[w] # NoConn /\ wk[w].pc = "commit"

SchemaSteps ==
    {"schema_getconn", "schema_table", "schema_index", "schema_commit",
     "schema_putconn"}

\* C18: a failure of schema initialization, at acquisition, table
\* creation, index creation or commit, is not fatal: the initializer never
\* ends the process, every one of its steps leads on to the serving state,
\* and its connection, if it got one, is back in the pool by then, so no
\* connection is in use when the first request arrives.
C18_SchemaFailureNonFatal ==
    /\ [][(boot \in SchemaSteps /\ boot' # boot) =>
             boot' \in SchemaSteps \cup {"serving"}]_vars
    /\ [][(boot = "schema_putconn" /\ boot' # boot) => boot' = "serving"]_vars
    /\ [](boot \in SchemaSteps /\ txn[1].state = "aborted" =>
             boot = "schema_putconn")
    /\ [](boot = "serving" => pool_used[MAIN] = NoConn)
    /\ [](boot = "serving" /\ served = 0 => InUse = 0 /\ pool_idle # <<>>)

\* the initializer failed, the table is missing, and the server has
\* accepted and answered a request with every connection back in the pool
C18_Witness ==
    /\ boot = "serving"
    /\ ~table_exists
    /\ txn[1].ended_by = "pool"
    /\ served = 1
    /\ InUse = 0
    /\ \E w \in Workers : Done(w) /\ wk[w].conn # NoConn

\* C19: init_schema run against a store where the table and the index
\* exist (as after a first run) leaves the store as it is, table, index
\* and every row, and the existing objects do not make it fail: each of
\* its statements and its commit can succeed.
C19_SchemaIdempotent ==
    /\ [][(boot \in SchemaSteps /\ boot' # boot /\ table_exists /\ index_exists) =>
             table_exists' /\ index_exists' /\ rows' = rows]_vars
    /\ [](boot = "schema_table" /\ table_exists =>
             ENABLED (SchemaCreateTable /\ boot' = "schema_index"))
    /\ [](boot = "schema_index" /\ index_exists =>
             ENABLED (SchemaCreateIndex /\ boot' = "schema_commit"))
    /\ [](boot = "schema_commit" /\ table_exists =>
             ENABLED (SchemaCommit /\ txn'[pool_used[MAIN]].ended_by = "commit"))
    /\ [](boot = "serving" /\ txn[1].ended_by = "commit" /\ served = 0 =>
             table_exists /\ index_exists)

\* init_schema has run to its commit against a store that held the table,
\* the index and rows of a prior run, and the rows are all there
C19_Witness ==
    /\ boot = "serving"
    /\ served = 0
    /\ txn[1].ended_by = "commit"
    /\ table_exists /\ index_exists
    /\ rows = [i \in 1..MaxPrior |-> PriorRow(i)]

\* worker w is committing the one row of a request that passed validation,
\* cleaning and scoring, and row r is that row
CommitsRow(w, r) ==
    /\ wk[w].pc = "commit" /\ wk'[w].pc = "query"
    /\ Validate(adapter, wk[w].data).ok
    /\ wk[w].fault = <<>>
    /\ Count(wk[w].ops, "validate") = 1
    /\ Count(wk[w].ops, "clean_text") = 1
    /\ Count(wk[w].ops, "get_classification") = 1
    /\ Count(wk[w].ops, "insert") = 1
    /\ r.customer_id = wk[w].data.customer_id.s
    /\ r.segment = get_segment(clean_text(wk[w].data.review_text.s))
    /\ r.segment = wk[w].segment
    /\ r.confidence = wk[w].confidence
    /\ r.processed_at = wk[w].inserted

\* C20: the record table is append-only, under any interleaving of
\* requests: a step never changes or removes a row that is there, adds at
\* most one row, and a row is added only by the commit of a request that
\* passed validation and classification; no request has more than one row
\* and there are never more rows than accepted requests.
C20_AppendOnly ==
    /\ [][/\ Len(rows') >= Len(rows)
          /\ Len(rows') <= Len(rows) + 1
          /\ SubSeq(rows', 1, Len(rows)) = rows]_vars
    /\ [][rows' # rows =>
             \E w \in Workers : CommitsRow(w, rows'[Len(rows')])]_vars
    /\ [](\A w \in Workers : Cardinality(OwnRows(w)) <= 1)
    /\ [](\A i, j \in 1..Len(rows) :
             rows[i].processed_at = rows[j].processed_at => i = j)
    /\ [](Len(rows) <= served)

\* two requests running side by side have each stored their row, the
\* second after the first
C20_Witness ==
    /\ Len(rows) = 2
    /\ served = 2
    /\ \A w \in Workers : Succeeded(w) /\ Cardinality(OwnRows(w)) = 1
    /\ wk[2].inserted < wk[1].inserted
    /\ rows[1].processed_at > rows[2].processed_at

\* worker w is at a step that operates on its connection
UsesConn(w) ==
    /\ wk[w].conn # NoConn
    /\ wk[w].pc \in {"insert", "commit", "query", "except", "finally"}

SuccessPayload(w) ==
    /\ wk[w].response.status = Success
    /\ wk[w].response.error = ""
    /\ wk[w].response.segment # <<>>
    /\ wk[w].response.customer_id = wk[w].data.customer_id

\* the response of worker w is an error status with its message and
\* carries no part of a success payload
ErrorOnly(w) ==
    /\ wk[w].response.status \notin {"", Success}
    /\ wk[w].response.error # ""
    /\ wk[w].response = ErrorResponse(wk[w].response.status, wk[w].response.error)

\* C22: every classify request ends with exactly one response, a success
\* payload or one error status: a request that is being handled is
\* eventually answered, also when it meets a saturated pool; nothing is
\* sent before the handler ends; and a request in which a step failed is
\* answered with an error status (a protocol status in the RPC adapter),
\* never with a success payload.
C22_ExactlyOneResponse ==
    /\ \A w \in Workers : (Handling(w) /\ ~Done(w)) ~> Done(w)
    /\ [](\A w \in Workers :
             /\ ~Done(w) => wk[w].response = NoResponse
             /\ Done(w) => (SuccessPayload(w) /\ ~ErrorOnly(w)) \/
                           (ErrorOnly(w) /\ ~SuccessPayload(w))
             /\ (Done(w) /\ wk[w].fault # <<>>) => ErrorOnly(w)
             /\ (Done(w) /\ wk[w].fault = <<>>) => SuccessPayload(w))

\* a request that met the saturated pool has its error response while the
\* other request still holds the connection
C22_Witness ==
    \E v, w \in Workers :
        /\ Done(w) /\ Refused(w) /\ ErrorOnly(w)
        /\ pool_used[v] # NoConn /\ ~Done(v)
        /\ InUse = DB_MAX_POOL

\* the request of worker w ended in a failure of the cleaning, the scoring,
\* the pool or the store
InternalFailure(w) ==
    /\ Done(w)
    /\ wk[w].fault # <<>>
    /\ wk[w].fault[1] \in {"clean_text", "get_classification", "getconn",
                           "insert", "commit", "query"}

\* C23: no internals leak: after a failure of the inference, the pool or
\* the store, the error text sent to the caller is none of the texts an
\* exception carries (that text goes to the log only), and two requests of
\* the same fields that failed at the same step with the same class of
\* exception received identical responses, whatever the exceptions' texts.
C23_NoLeak ==
    /\ \A w \in Workers :
          InternalFailure(w) =>
              /\ wk[w].response.error \notin ExceptionMessages \cup {""}
              /\ wk[w].response = ErrorResponse(wk[w].response.status,
                                                wk[w].response.error)
              /\ wk[w].logged = wk[w].e_msg
    /\ \A v, w \in Workers :
          ( /\ InternalFailure(v) /\ InternalFailure(w)
            /\ wk[v].data = wk[w].data
            /\ wk[v].fault = wk[w].fault )
          => wk[v].response = wk[w].response

\* two requests failed at the same store statement with exceptions of the
\* same class and different texts
C23_Witness ==
    \E v, w \in Workers :
        /\ InternalFailure(v) /\ InternalFailure(w)
        /\ StoreFault(v) /\ wk[v].fault = wk[w].fault
        /\ wk[v].data = wk[w].data
        /\ wk[v].e_msg # wk[w].e_msg
        /\ wk[v].logged # wk[w].logged

\* the calls of worker w's request on the pool and the store, in order
UnitOfWorkOps(w) ==
    SelectSeq(wk[w].ops, LAMBDA o : o \in {"getconn", "insert", "commit",
                                           "query", "rollback", "putconn"})

\* C24: on the success path the pool and store operations of a request
\* occur in the order acquire, insert, commit, history query, release, all
\* on the connection the request acquired; the history query is issued
\* only after the insert is committed (the request's row is in the store
\* and the connection's transaction was ended by the commit), and the
\* response exists only once the connection is released.
C24_UnitOfWorkOrder ==
    /\ [](\A w \in Workers :
            /\ Succeeded(w) =>
                  UnitOfWorkOps(w) =
                      <<"getconn", "insert", "commit", "query", "putconn">>
            /\ wk[w].pc \in {"insert", "commit", "query"} =>
                  /\ wk[w].conn # NoConn
                  /\ pool_used[w] = wk[w].conn
            /\ wk[w].pc = "commit" =>
                  /\ UnitOfWorkOps(w) = <<"getconn", "insert">>
                  /\ txn[wk[w].conn].pending = <<[NewRow(wk[w]) EXCEPT
                                  !.processed_at = wk[w].inserted]>>
            /\ wk[w].pc = "query" =>
                  /\ UnitOfWorkOps(w) = <<"getconn", "insert", "commit">>
                  /\ txn[wk[w].conn].ended_by = "commit"
                  /\ \E i \in 1..Len(rows) :
                        rows[i] = [customer_id |-> wk[w].data.customer_id.s,
                                   segment |-> wk[w].segment,
                                   confidence |-> wk[w].confidence,
                                   processed_at |-> wk[w].inserted]
            /\ wk[w].response # NoResponse => pool_used[w] = NoConn)
    /\ [][\A w \in Workers :
            (wk[w].conn # NoConn /\ wk'[w].pc \notin {"idle", "validate"})
                => wk'[w].conn = wk[w].conn]_vars

\* a request succeeded while another request was inside its own unit of
\* work on another connection
C24_Witness ==
    \E v, w \in Workers :
        /\ Succeeded(w)
        /\ UnitOfWorkOps(w) = <<"getconn", "insert", "commit", "query", "putconn">>
        /\ wk[v].pc = "query" /\ wk[v].conn # wk[w].conn

\* worker w is between its INSERT and its history read
InUnitOfWork(w) == wk[w].pc \in {"insert", "commit", "query"}

\* the history returned to worker w holds the row of worker v
SeesRowOf(w, v) ==
    \E i \in 1..Len(wk[w].recent_rows) :
        wk[w].recent_rows[i].processed_at = wk[v].inserted

\* C25: the accepted race. Two requests of the same customer that are
\* inside their units of work at the same time do not wait for each
\* other: each one's next store step can be taken whatever the position of
\* its sibling; and once both have ended without a failure, both have
\* succeeded and both rows are in the store. (That the history of a
\* request may or may not contain the sibling's row is shown by the
\* witness.)
C25_AcceptedRace ==
    /\ [](\A v, w \in Workers :
            ( /\ v # w /\ table_exists
              /\ InUnitOfWork(v) /\ InUnitOfWork(w)
              /\ wk[v].data.customer_id = wk[w].data.customer_id )
            => ENABLED (Process(w) /\ wk'[w].fault = <<>>))
    /\ [](\A v, w \in Workers :
            ( /\ v # w /\ Done(v) /\ Done(w)
              /\ wk[v].fault = <<>> /\ wk[w].fault = <<>>
              /\ wk[v].data.customer_id = wk[w].data.customer_id )
            => /\ Succeeded(v) /\ Succeeded(w)
               /\ OwnRows(v) # {} /\ OwnRows(w) # {}
               /\ OwnRows(v) # OwnRows(w)
               /\ SeesRowOf(v, v) /\ SeesRowOf(w, w))

\* both outcomes of the race in one run: request v inserted first, yet the
\* history returned to w lacks v's row (w read before v committed), while
\* the history returned to v holds w's row
C25_Witness ==
    \E v, w \in Workers :
        /\ v # w /\ Succeeded(v) /\ Succeeded(w)
        /\ wk[v].data.customer_id = wk[w].data.customer_id
        /\ wk[v].inserted < wk[w].inserted
        /\ ~SeesRowOf(w, v)
        /\ SeesRowOf(v, w)

\* the other outcome: each of the two histories holds the sibling's row
C25_BothSee ==
    \E v, w \in Workers :
        /\ v # w /\ Succeeded(v) /\ Succeeded(w)
        /\ SeesRowOf(w, v) /\ SeesRowOf(v, w)

\* C26: cancellation. A request whose caller has gone while it holds a
\* connection is still driven to its end: the connection is eventually
\* given back to the pool; and when such a request has ended, its unit of
\* work was closed by a commit or a rollback before the one release.
C26_Cancellation ==
    /\ \A w \in Workers :
          (wk[w].cancelled /\ pool_used[w] # NoConn)
              ~> (Done(w) /\ wk[w].cancelled /\ pool_used[w] = NoConn)
    /\ [](\A w \in Workers :
            (Done(w) /\ wk[w].cancelled /\ wk[w].conn # NoConn) =>
                /\ pool_used[w] = NoConn
                /\ Count(UnitOfWorkOps(w), "putconn") = 1
                /\ UnitOfWorkOps(w)[Len(UnitOfWorkOps(w))] = "putconn"
                /\ \/ Count(UnitOfWorkOps(w), "commit") = 1
                   \/ Count(UnitOfWorkOps(w), "rollback") = 1)

\* the caller went away between the INSERT and its commit; the request
\* went on, committed its row and released the connection
C26_Witness ==
    \E w \in Workers :
        /\ Done(w) /\ wk[w].cancelled
        /\ Succeeded(w) /\ OwnRows(w) # {}
        /\ pool_used[w] = NoConn
        /\ wk[w].conn \in IdleConns

\* the rows of the adapters' status tables
OutcomeKinds == {"preprocess", "inference", "pool", "OperationalError",
                 "ProgrammingError", "Exception", "success"}

\* the outcome the response of worker w reports, read back through the
\* status table of the adapter that sent it
ReportedKind(w) ==
    LET st == <<wk[w].response.status, wk[w].response.error>>
    IN  IF \E k \in OutcomeKinds : StatusOf(adapter, k) = st
        THEN CHOOSE k \in OutcomeKinds : StatusOf(adapter, k) = st
        ELSE "validation"

\* the outcome that the request's fields and the collaborators' injected
\* outcomes amount to, whatever the adapter
InjectedKind(w) ==
    LET f == wk[w].fault
    IN  CASE f = <<>> -> "success"
          [] f = <<"validate">> -> "validation"
          [] f = <<"clean_text">> -> "preprocess"
          [] f = <<"get_classification">> -> "inference"
          [] f = <<"getconn", "PoolError">> -> "pool"
          [] OTHER -> f[2]

\* the pool and store operations that go with them, whatever the adapter
InjectedOps(w) ==
    LET f == wk[w].fault
    IN  CASE f = <<>> -> <<"getconn", "insert", "commit", "query", "putconn">>
          [] Len(f) = 1 -> <<>>
          [] f[1] = "getconn" -> <<"getconn">>
          [] f[1] = "insert" -> <<"getconn", "insert", "rollback", "putconn">>
          [] f[1] = "commit" ->
                <<"getconn", "insert", "commit", "rollback", "putconn">>
          [] f[1] = "query" ->
                <<"getconn", "insert", "commit", "query", "rollback", "putconn">>

\* the fields of the request are strings, as every RPC request's are
StringFields(w) ==
    /\ wk[w].data.kind = "object"
    /\ IsStr(wk[w].data.customer_id) /\ IsStr(wk[w].data.review_text)

\* C27: adapter equivalence: for a request with string fields, the outcome
\* reported and the sequence of pool and store operations performed are
\* functions of the request's fields and of the collaborators' outcomes
\* alone, the same for the HTTP and the RPC adapter, which differ only in
\* the status that encodes the outcome.
C27_AdapterEquivalence ==
    \A w \in Workers :
        (Done(w) /\ StringFields(w)) =>
            /\ ReportedKind(w) = InjectedKind(w)
            /\ UnitOfWorkOps(w) = InjectedOps(w)

\* the same, leaving out the requests refused by an exhausted pool
C27_EquivalentButForExhaustion ==
    \A w \in Workers :
        (Done(w) /\ StringFields(w) /\ ~Refused(w)) =>
            /\ ReportedKind(w) = InjectedKind(w)
            /\ UnitOfWorkOps(w) = InjectedOps(w)

\* the operations alone are the same in every case
C27_SameOperations ==
    \A w \in Workers :
        (Done(w) /\ StringFields(w)) => UnitOfWorkOps(w) = InjectedOps(w)

\* C28: in every success response history_count is the number of rows the
\* history query fetched, between 1 and 5, and recent_classifications has
\* exactly min(2, history_count) entries: the first fetched rows, in fetch
\* order.
C28_HistoryCount ==
    \A w \in Workers :
        Succeeded(w) =>
            LET hc == wk[w].response.history_count
                rc == wk[w].response.recent_classifications
            IN  /\ hc = Len(wk[w].recent_rows)
                /\ hc >= 1 /\ hc <= 5
                /\ Len(rc) = (IF hc < 2 THEN hc ELSE 2)
                /\ \A i \in 1..Len(rc) :
                       rc[i] = [timestamp |-> wk[w].recent_rows[i].processed_at,
                                segment |-> wk[w].recent_rows[i].segment,
                                confidence |-> wk[w].recent_rows[i].confidence]

\* a customer with more than five rows: five are fetched and counted, two
\* are returned
C28_Witness ==
    \E w \in Workers :
        /\ Succeeded(w)
        /\ Cardinality(StoredFor(wk[w].data.customer_id.s)) > 5
        /\ wk[w].response.history_count = 5
        /\ Len(wk[w].response.recent_classifications) = 2
        /\ wk[w].response.recent_classifications[2].timestamp
               = wk[w].recent_rows[2].processed_at

\* a customer's first request: one row fetched, counted and returned
C28_First ==
    \E w \in Workers :
        /\ Succeeded(w)
        /\ wk[w].response.history_count = 1
        /\ Len(wk[w].response.recent_classifications) = 1

\* the requests that are inside the try statement with a connection
InsideUnitOfWork ==
    { w \in Workers : wk[w].pc \in {"insert", "commit", "query", "except",
                                    "finally"} }

\* C29: a request acquires at most one connection, holds none before the
\* acquisition (validating, cleaning, scoring) nor after its end, so the
\* connections in use by requests are never more than the requests inside
\* the unit of work; and when the worker threads are at most as many as
\* the pool's maximum, no request meets an exhausted pool.
C29_NoExhaustionWithinCapacity ==
    /\ \A w \in Workers :
          /\ Count(wk[w].ops, "getconn") <= 1
          /\ wk[w].pc \in {"idle", "validate", "clean", "score", "getconn", "done"}
                => pool_used[w] = NoConn
          /\ pool_used[w] # NoConn => pool_used[w] = wk[w].conn
    /\ boot = "serving" => InUse <= Cardinality(InsideUnitOfWork)
    /\ MAX_WORKER_THREADS <= DB_MAX_POOL =>
          \A w \in Workers :
              /\ ~Refused(w)
              /\ wk[w].pc = "getconn" => ~PoolExhausted

\* as many connections in use as there are worker threads, the pool at
\* its maximum, and nobody refused
C29_Witness ==
    /\ MAX_WORKER_THREADS <= DB_MAX_POOL
    /\ InUse = MAX_WORKER_THREADS
    /\ InsideUnitOfWork = Workers
    /\ served = MaxRequests
    /\ \A w \in Workers : wk[w].pc = "query"

\* the commit step of worker w's request has completed
CommitCompleted(w) ==
    /\ Count(wk[w].ops, "commit") = 1
    /\ ~(wk[w].fault # <<>> /\ wk[w].fault[1] = "commit")

\* worker w's request failed at statement op
FailedAt(w, op) == wk[w].fault # <<>> /\ wk[w].fault[1] = op

\* C30: the row of a request is in the store exactly when its commit step
\* has completed. A failure of the history query, which comes after the
\* commit, gives the caller 503/UNAVAILABLE or 500/INTERNAL and leaves the
\* row in the store: the rollback of the except clause changes no row; a
\* later request of the same customer then commits a second row and is
\* given both. A failure at the insert or at the commit leaves no row of
\* the request.
C30_PersistedIffCommitted ==
    /\ [](\A w \in Workers :
            /\ (OwnRows(w) # {}) <=> CommitCompleted(w)
            /\ FailedAt(w, "query") => OwnRows(w) # {}
            /\ (FailedAt(w, "query") /\ Done(w)) =>
                  /\ wk[w].response.status \in
                        { StatusOf(adapter, "OperationalError")[1],
                          StatusOf(adapter, "Exception")[1] }
                  /\ wk[w].response.status # Success
            /\ (FailedAt(w, "insert") \/ FailedAt(w, "commit")) =>
                  OwnRows(w) = {})
    /\ [](\A v, w \in Workers :
            ( /\ v # w /\ FailedAt(v, "query") /\ Succeeded(w)
              /\ wk[v].data.customer_id = wk[w].data.customer_id
              /\ \E i \in OwnRows(v), j \in OwnRows(w) : i < j )
            => /\ Cardinality(StoredFor(wk[w].data.customer_id.s)) >= 2
               /\ wk[w].response.history_count >= 2
               /\ SeesRowOf(w, v))
    /\ [][\A w \in Workers :
            (wk[w].pc = "except" /\ wk'[w].pc = "finally") => rows' = rows]_vars

\* a request failed at its history query with a query error, answered
\* 500 or INTERNAL; its row is in the store, and a later request of the
\* same customer has added a second row
C30_Witness ==
    \E v, w \in Workers :
        /\ v # w /\ Done(v) /\ wk[v].fault = <<"query", "ProgrammingError">>
        /\ Count(wk[v].ops, "rollback") = 1
        /\ OwnRows(v) # {}
        /\ Succeeded(w) /\ wk[w].response.history_count = 2
        /\ wk[v].inserted < wk[w].inserted

\* the string has whitespace before or after its text
Padded(s) == Strip(s) # s

\* C31: validation trims only to test for emptiness. The customer_id that
\* is stored, that selects the history and that the response echoes is the
\* supplied value with its surrounding whitespace: the history of a
\* request counts the stored rows of exactly that value and none of a
\* value that differs in whitespace. The review_text is measured against
\* the maximum with its surrounding whitespace (a text too long only
\* because of it is rejected, nothing being stored), and it is passed to
\* the cleaner as supplied.
C31_UntrimmedFields ==
    \A w \in Workers :
        LET c == wk[w].data.customer_id
            t == wk[w].data.review_text
        IN  /\ \A i \in OwnRows(w) : rows[i].customer_id = c.s
            /\ Succeeded(w) =>
                  /\ wk[w].response.customer_id = c
                  /\ \A i \in 1..Len(wk[w].recent_rows) :
                         wk[w].recent_rows[i].customer_id = c.s
                  /\ wk[w].response.history_count =
                         Min(HISTORY_LIMIT, Cardinality(StoredFor(c.s)))
            /\ (Done(w) /\ GoodCustomer(wk[w].data) /\ TooLong(t)) =>
                  /\ wk[w].response.status = ClientError
                  /\ OwnRows(w) = {}
                  /\ NotRun(w, "clean_text")
            /\ (Handling(w) /\ GoodCustomer(wk[w].data) /\ ~TooLong(t)
                    /\ wk[w].pc # "validate") => wk[w].fault # <<"validate">>
            /\ Count(wk[w].ops, "clean_text") = 1 /\ wk[w].fault # <<"clean_text">>
                  => wk[w].clean_arg = t.s

\* a request with customer_id " u" and text " ok" succeeded after a request
\* of customer "u" had stored its row: the stored and echoed id is " u",
\* the cleaner was given " ok", and the history holds one row only
C31_Witness ==
    \E w \in Workers :
        /\ Succeeded(w)
        /\ Padded(wk[w].data.customer_id.s) /\ Padded(wk[w].clean_arg)
        /\ wk[w].response.customer_id.s = wk[w].data.customer_id.s
        /\ \E i \in OwnRows(w) : Padded(rows[i].customer_id)
        /\ StoredFor(Strip(wk[w].data.customer_id.s)) # {}
        /\ wk[w].response.history_count = 1

\* a text of five characters, two without its blanks, was rejected as too
\* long
C31_TooLongOnlyPadded ==
    \E w \in Workers :
        /\ Done(w) /\ TooLong(wk[w].data.review_text)
        /\ Len(Strip(wk[w].data.review_text.s)) <= MAX_TEXT_LENGTH
        /\ wk[w].response.status = ClientError

=============================================================================
